---- MODULE Spec2Model ----
(***************************************************************************)
(* Model of the docker image analyzer of dive (package image):             *)
(*   - Parse reads the saved image archive one top-level header at a time, *)
(*     building one FileTree per */layer.tar entry (processLayerTar,       *)
(*     getFileList) and storing every *.json entry;                        *)
(*   - Analyze binds the trees to the config history and computes the      *)
(*     size totals;                                                        *)
(*   - newDockerImageConfig assigns diff-ids to history entries.           *)
(* A Go pointer to a FileTree is modelled by the tree value itself: a tree *)
(* carries its Name, and layerMap holds one tree per name.  Go slices are  *)
(* 0-based; sequences here are 1-based, so slice[i] is seq[i + 1].         *)
(***************************************************************************)
EXTENDS Integers, Sequences, FiniteSets, TLC

VARIABLES
    pc,           \* "parsing" (inside Parse's loop), "parsed" (Parse returned nil),
                  \* "failed" (Parse returned an error), "analyzed" (Analyze was called)
    header,       \* Parse: the header last returned by tarReader.Next()
    layerTar,     \* Parse: the records of the sub-archive of that header (layer.tar entries)
    currentLayer, \* Parse: currentLayer counter
    parseErr,     \* the error Parse returned, NoErr while there is none
    layerMap,     \* image.layerMap
    jsonFiles,    \* image.jsonFiles
    trees,        \* image.trees
    layers,       \* image.layers
    config,       \* the dockerImageConfig built by newDockerImageConfig
    outcome,      \* what the last Analyze call produced: a result, or a panic
    calls         \* how many times Analyze was called

vars == <<pc, header, layerTar, currentLayer, parseErr, layerMap, jsonFiles,
          trees, layers, config, outcome, calls>>

-----------------------------------------------------------------------------
(* Bounds of the model *)

\* records in one layer sub-archive
MaxFiles == 2
\* history entries in one image config
MaxHistory == 3
\* layer.tar entries read by one Parse
MaxLayerEntries == 2
\* layer paths in one manifest
MaxLayers == 2
\* calls of Analyze on one analyzer
MaxCalls == 2

-----------------------------------------------------------------------------
(* archive/tar type flags *)
TypeReg == "0"
TypeSymlink == "2"
TypeDir == "5"
TypeXHeader == "x"
TypeXGlobalHeader == "g"

(* Entry names are a stem and the ending the code tests with HasSuffix *)
HasSuffix(name, suffix) == name.ext = suffix

LayerTarExt == "layer.tar"
JsonExt == ".json"
ManifestName == [stem |-> "manifest", ext |-> JsonExt]
ConfigName == [stem |-> "cfg", ext |-> JsonExt]
LayerDirs == {"l1/", "l2/"}
LayerNames == {[stem |-> d, ext |-> LayerTarExt] : d \in LayerDirs}
OtherName == [stem |-> "repositories", ext |-> ""]
JsonNames == {ManifestName, ConfigName}
TopNames == LayerNames \cup JsonNames \cup {OtherName}

(* nil values *)
NoErr == [nil |-> "error"]
NoTree == [nil |-> "tree"]
NoBytes == [nil |-> "bytes"]
NoLayer == [nil |-> "layer"]
NoHeader == [Name |-> [stem |-> "", ext |-> ""], Typeflag |-> ""]
NoConfig == [nil |-> "config"]
NoOutcome == [kind |-> "none"]

-----------------------------------------------------------------------------
(* filetree.FileInfo, filetree.FileTree *)

\* The FileInfo of one archive record: its path, type flag and declared size.
NewFileInfo(hdr, path) ==
    [Path |-> path, TypeFlag |-> hdr.Typeflag, Size |-> hdr.Size]

\* An empty tree: no name, no bytes, no paths.  files maps each path the tree
\* holds to the FileInfo last added at it.
NewFileTree == [Name |-> "", FileSize |-> 0, files |-> [p \in {} |-> NoBytes]]

\* Insert data at path, replacing what the tree held there (last write wins).
AddPath(tree, path, data) ==
    [tree EXCEPT !.files =
        [p \in (DOMAIN tree.files) \cup {path} |->
            IF p = path THEN data ELSE tree.files[p]]]

-----------------------------------------------------------------------------
(* getFileList: the loop over one layer sub-archive.  reader is the sequence  *)
(* of headers tarReader.Next() returns before io.EOF; i is the next to read.  *)

FormatError(hdr, class) ==
    [kind |-> "unexpected header", name |-> hdr.Name,
     typeflag |-> hdr.Typeflag, class |-> class]

RECURSIVE GetFileListSkipping(_, _, _)
\* the loop with the header check dropped for extended headers
GetFileListSkipping(reader, i, files) ==
    IF i > Len(reader) THEN [files |-> files, err |-> NoErr]
    ELSE IF reader[i].Typeflag = TypeXGlobalHeader
         THEN [files |-> <<>>, err |-> FormatError(reader[i], "XGlobalHeader")]
    ELSE IF reader[i].Typeflag = TypeXHeader
         THEN GetFileListSkipping(reader, i + 1, files)
    ELSE GetFileListSkipping(reader, i + 1,
            Append(files, NewFileInfo(reader[i], reader[i].Name)))

RECURSIVE GetFileListFrom(_, _, _)
GetFileListFrom(reader, i, files) ==
    IF i > Len(reader) THEN [files |-> files, err |-> NoErr]
    ELSE IF reader[i].Typeflag = TypeXGlobalHeader
         THEN [files |-> <<>>, err |-> FormatError(reader[i], "XGlobalHeader")]
    ELSE IF reader[i].Typeflag = TypeXHeader
         THEN [files |-> <<>>, err |-> FormatError(reader[i], "XHeader")]
    ELSE GetFileListFrom(reader, i + 1,
            Append(files, NewFileInfo(reader[i], reader[i].Name)))

getFileList(tarReader) == GetFileListFrom(tarReader, 1, <<>>)

-----------------------------------------------------------------------------
(* processLayerTar: build the tree of one layer *)

\* the loop body counting only regular files
AddElementRegularOnly(tree, element) ==
    AddPath([tree EXCEPT !.FileSize =
                IF element.TypeFlag = TypeReg THEN @ + element.Size ELSE @],
            element.Path, element)

\* the loop body: track the total size, then add the element to the tree
AddElement(tree, element) ==
    AddPath([tree EXCEPT !.FileSize = @ + element.Size], element.Path, element)

RECURSIVE AddElementsFrom(_, _, _)
AddElementsFrom(tree, fileInfos, i) ==
    IF i > Len(fileInfos) THEN tree
    ELSE AddElementsFrom(AddElement(tree, fileInfos[i]), fileInfos, i + 1)

processLayerTar(name, layerIdx, reader) ==
    LET tree0 == [NewFileTree EXCEPT !.Name = name]
        list == getFileList(reader)
    IN  IF list.err # NoErr
        THEN [tree |-> NoTree, err |-> list.err]
        ELSE [tree |-> AddElementsFrom(tree0, list.files, 1), err |-> NoErr]

-----------------------------------------------------------------------------
(* The json entries.  A manifest is [ConfigPath, LayerTarPaths]; a config is  *)
(* [History, DiffIds], a history entry [CreatedBy, EmptyLayer, ID, Size].     *)
(* json.Unmarshal fails on absent or empty bytes, and logrus.Panic panics.    *)

EmptyBytes == [empty |-> "bytes"]
Panic(reason) == [kind |-> "panic", reason |-> reason]
IsPanic(v) == "kind" \in DOMAIN v /\ v.kind = "panic"
Unreadable(bytes) == bytes \in {NoBytes, EmptyBytes}

newDockerImageManifest(manifestBytes) ==
    IF Unreadable(manifestBytes) THEN Panic("manifest: unexpected end of JSON input")
    ELSE manifestBytes

MissingId == "<missing>"

\* the loop body taking the diff-id at the history position
ConfigStepByPosition(st, idx) ==
    IF st.History[idx].EmptyLayer
    THEN [st EXCEPT !.History[idx].ID = MissingId]
    ELSE IF idx > Len(st.DiffIds)
         THEN [st EXCEPT !.panic = "config: index out of range"]
         ELSE [st EXCEPT !.History[idx].ID = st.DiffIds[idx],
                         !.layerIdx = @ + 1]

\* the loop body of newDockerImageConfig for History[idx]
ConfigStep(st, idx) ==
    IF st.History[idx].EmptyLayer
    THEN [st EXCEPT !.History[idx].ID = MissingId]
    ELSE IF st.layerIdx + 1 > Len(st.DiffIds)
         THEN [st EXCEPT !.panic = "config: index out of range"]
         ELSE [st EXCEPT !.History[idx].ID = st.DiffIds[st.layerIdx + 1],
                         !.layerIdx = @ + 1]

RECURSIVE ConfigFrom(_, _)
ConfigFrom(st, idx) ==
    IF st.panic # "" \/ idx > Len(st.History) THEN st
    ELSE ConfigFrom(ConfigStep(st, idx), idx + 1)

newDockerImageConfig(configBytes) ==
    IF Unreadable(configBytes) THEN Panic("config: unexpected end of JSON input")
    ELSE LET st == ConfigFrom([History |-> configBytes.History,
                               DiffIds |-> configBytes.DiffIds,
                               layerIdx |-> 0, panic |-> ""], 1)
         IN  IF st.panic # "" THEN Panic(st.panic)
             ELSE [History |-> st.History, DiffIds |-> st.DiffIds]

-----------------------------------------------------------------------------
(* dockerLayer and its accessors *)

LayerIndex(layer) == layer.index
LayerSize(layer) == layer.history.Size
LayerTree(layer) == layer.tree
LayerId(layer) == layer.history.ID
ShPrefix == "/bin/sh -c "
\* CreatedBy is a sequence of words; TrimPrefix drops a leading "/bin/sh -c "
LayerCommand(layer) ==
    LET c == layer.history.CreatedBy
    IN  IF c # <<>> /\ Head(c) = ShPrefix THEN Tail(c) ELSE c

-----------------------------------------------------------------------------
(* Analyze *)

\* the lookups appended to the trees the analyzer already holds
BuildTreesAppending(lmap, manifest) ==
    trees \o [i \in 1..Len(manifest.LayerTarPaths) |-> lmap[manifest.LayerTarPaths[i]]]

\* image.trees: layerMap looked up at each manifest path, in order
BuildTrees(lmap, manifest) ==
    [i \in 1..Len(manifest.LayerTarPaths) |-> lmap[manifest.LayerTarPaths[i]]]

\* the dockerLayer literal with tarPath taken at the layer cursor
NewLayerTarPathAtSlot(entry, layerIdx, tarPathIdx, imageTrees, manifest) ==
    [history |-> entry,
     index   |-> layerIdx,
     tree    |-> imageTrees[layerIdx + 1],
     tarPath |-> manifest.LayerTarPaths[layerIdx + 1]]

\* the dockerLayer literal stored at layers[layerIdx]
NewLayer(entry, layerIdx, tarPathIdx, imageTrees, manifest) ==
    [history |-> entry,
     index   |-> layerIdx,
     tree    |-> imageTrees[layerIdx + 1],
     tarPath |-> manifest.LayerTarPaths[tarPathIdx + 1]]

\* One pass of the history loop.  st holds config.History, image.layers and
\* the two cursors; panic is set where Go's runtime would panic.
AssembleStep(st, idx, imageTrees, manifest) ==
    LET n == Len(imageTrees)
        entry == st.History[idx]
        t == (n - 1) - st.layerIdx
    IN  IF entry.EmptyLayer THEN st
        ELSE IF t < 0 \/ t >= n
             THEN [st EXCEPT !.panic = "index out of range"]
        ELSE IF imageTrees[t + 1] = NoTree
             THEN [st EXCEPT !.panic = "nil pointer dereference"]
        ELSE LET sized == [entry EXCEPT !.Size = imageTrees[t + 1].FileSize]
             IN  [st EXCEPT
                    !.History[idx] = sized,
                    !.layers[st.layerIdx + 1] =
                        NewLayer(sized, st.layerIdx, st.tarPathIdx, imageTrees, manifest),
                    !.layerIdx = @ - 1,
                    !.tarPathIdx = @ + 1]

RECURSIVE AssembleFrom(_, _, _, _)
AssembleFrom(st, idx, imageTrees, manifest) ==
    IF st.panic # "" \/ idx > Len(st.History) THEN st
    ELSE AssembleFrom(AssembleStep(st, idx, imageTrees, manifest), idx + 1,
                      imageTrees, manifest)

\* filetree.Efficiency: a computation over the trees Analyze hands it, which
\* leaves each of them as it was
EfficiencyLeaves(imageTrees) == imageTrees

RECURSIVE SumSizes(_, _, _)
\* the totals loop over image.layers from position i (0-based): acc is
\* [sizeBytes, userSizeBytes, panic]
SumSizes(ls, i, acc) ==
    IF i >= Len(ls) THEN acc
    ELSE IF ls[i + 1] = NoLayer
         THEN [acc EXCEPT !.panic = "nil pointer dereference"]
    ELSE SumSizes(ls, i + 1,
            [acc EXCEPT !.sizeBytes = @ + LayerSize(ls[i + 1]),
                        !.userSizeBytes =
                            IF i # 0 THEN @ + LayerSize(ls[i + 1]) ELSE @])

\* The whole of Analyze as a function of the parsed state and of the layers
\* field it finds: the fields it leaves in the analyzer and what it gives its
\* caller.  filetree.Efficiency only reads the trees; the efficiency figures
\* it feeds (Efficiency, Inefficiencies, WastedBytes) are left out of the result.
AnalyzeRun(lmap, files, oldLayers) ==
    LET manifest == newDockerImageManifest(files[ManifestName])
        stopped(reason, cfg, ts, ls) ==
            [trees |-> ts, layers |-> ls, config |-> cfg, outcome |-> Panic(reason)]
    IN  IF IsPanic(manifest) THEN stopped(manifest.reason, NoConfig, <<>>, oldLayers)
        ELSE
        LET cfg == newDockerImageConfig(
                      IF manifest.ConfigPath \in DOMAIN files
                      THEN files[manifest.ConfigPath] ELSE NoBytes)
        IN  IF IsPanic(cfg) THEN stopped(cfg.reason, NoConfig, <<>>, oldLayers)
            ELSE
            LET ts == BuildTrees(lmap, manifest)
                n == Len(ts)
                st == AssembleFrom([History |-> cfg.History,
                                    layers |-> [i \in 1..n |-> NoLayer],
                                    layerIdx |-> n - 1, tarPathIdx |-> 0,
                                    panic |-> ""], 1, ts, manifest)
                cfg2 == [cfg EXCEPT !.History = st.History]
            IN  IF st.panic # "" THEN stopped(st.panic, cfg2, ts, st.layers)
                ELSE
                LET tot == SumSizes(st.layers, 0,
                              [sizeBytes |-> 0, userSizeBytes |-> 0, panic |-> ""])
                IN  IF tot.panic # "" THEN stopped(tot.panic, cfg2, ts, st.layers)
                    ELSE [trees |-> EfficiencyLeaves(ts), layers |-> st.layers, config |-> cfg2,
                          outcome |-> [kind |-> "result",
                                       Layers |-> st.layers,
                                       RefTrees |-> EfficiencyLeaves(ts),
                                       SizeBytes |-> tot.sizeBytes,
                                       UserSizeByes |-> tot.userSizeBytes]]

-----------------------------------------------------------------------------
(* Inputs: the records of a layer sub-archive *)
Paths == {"a", "b"}
FileTypes == {TypeReg, TypeDir, TypeXHeader, TypeXGlobalHeader}
FileSizes == {1, 2}
FileHeaders == [Name : Paths, Typeflag : FileTypes, Size : FileSizes]

SeqsUpTo(S, n) == UNION {[1..k -> S] : k \in 0..n}

LayerTars == SeqsUpTo(FileHeaders, MaxFiles)

(* Inputs: manifests and configs *)
Words == <<"ADD rootfs", "apt-get update", "make install", "rm -rf /tmp", "touch /x", "true">>
Digests == <<"sha256:d1", "sha256:d2", "sha256:d3", "sha256:d4", "sha256:d5", "sha256:d6">>

CreatedByAt(i) == IF i = 1 THEN <<Words[i]>> ELSE <<ShPrefix, Words[i]>>

HistoryOf(flags) ==
    [i \in 1..Len(flags) |->
        [CreatedBy |-> CreatedByAt(i), EmptyLayer |-> flags[i], ID |-> "", Size |-> 0]]

Manifests ==
    {[ConfigPath |-> ConfigName, LayerTarPaths |-> ps] : ps \in SeqsUpTo(LayerNames, MaxLayers)}

Configs ==
    {[History |-> HistoryOf(flags), DiffIds |-> [i \in 1..k |-> Digests[i]]] :
        flags \in SeqsUpTo(BOOLEAN, MaxHistory), k \in 0..MaxHistory}

\* what Parse meets in the archives of Spec: one manifest of two layers, one
\* config with an empty layer between two layers with content
SampleManifest ==
    [ConfigPath |-> ConfigName,
     LayerTarPaths |-> <<[stem |-> "l1/", ext |-> LayerTarExt],
                         [stem |-> "l2/", ext |-> LayerTarExt]>>]
SampleConfig ==
    [History |-> HistoryOf(<<FALSE, TRUE, FALSE>>),
     DiffIds |-> <<Digests[1], Digests[2]>>]

TopTypes == {TypeReg, TypeSymlink, TypeDir, TypeXHeader, TypeXGlobalHeader}
TopHeaders == [Name : TopNames, Typeflag : TopTypes]

\* the sub-archives Parse meets in the archives of Spec and behind the trees
\* SpecAnalyze starts from: empty, one file, two paths, one path written twice
SampleTars ==
    {<<>>,
     <<[Name |-> "a", Typeflag |-> TypeReg, Size |-> 1]>>,
     <<[Name |-> "a", Typeflag |-> TypeReg, Size |-> 1],
       [Name |-> "b", Typeflag |-> TypeDir, Size |-> 2]>>,
     <<[Name |-> "a", Typeflag |-> TypeReg, Size |-> 2],
       [Name |-> "a", Typeflag |-> TypeReg, Size |-> 1],
       [Name |-> "b", Typeflag |-> TypeReg, Size |-> 4]>>,
     <<[Name |-> "a", Typeflag |-> TypeReg, Size |-> 1],
       [Name |-> "b", Typeflag |-> TypeXHeader, Size |-> 1]>>}
BuiltTrees(name) ==
    {processLayerTar(name, 1, t).tree : t \in {x \in SampleTars : getFileList(x).err = NoErr}}

\* the bytes that follow a top-level header: a sub-archive (tar) or a json
\* document (bytes); a symlink and a directory carry none
NoBody == [tar |-> <<>>, bytes |-> EmptyBytes]
BodiesOf(h, tars) ==
    IF h.Typeflag # TypeReg THEN {NoBody}
    ELSE IF h.Name \in LayerNames THEN {[tar |-> t, bytes |-> EmptyBytes] : t \in tars}
    ELSE IF h.Name = ManifestName
         THEN {[tar |-> <<>>, bytes |-> b] : b \in {SampleManifest, EmptyBytes}}
    ELSE IF h.Name = ConfigName
         THEN {[tar |-> <<>>, bytes |-> b] : b \in {SampleConfig, EmptyBytes}}
    ELSE {NoBody}

-----------------------------------------------------------------------------
(* State after newDockerImageAnalyzer, at the head of Parse's loop *)
Init ==
    /\ pc = "parsing"
    /\ header = NoHeader
    /\ layerTar = <<>>
    /\ currentLayer = 0
    /\ parseErr = NoErr
    /\ layerMap = [n \in LayerNames |-> NoTree]
    /\ jsonFiles = [n \in JsonNames |-> NoBytes]
    /\ trees = <<>>
    /\ layers = <<>>
    /\ config = NoConfig
    /\ outcome = NoOutcome
    /\ calls = 0

(* One pass of Parse's loop over the header h and the bytes that follow it *)
ParseIteration(h, body) ==
    /\ pc = "parsing"
    /\ header' = h
    /\ layerTar' = body.tar
    /\ UNCHANGED <<trees, layers, config, outcome, calls>>
    /\ IF h.Typeflag # TypeSymlink /\ h.Typeflag # TypeReg
       THEN UNCHANGED <<pc, currentLayer, parseErr, layerMap, jsonFiles>>
       ELSE IF HasSuffix(h.Name, LayerTarExt)
       THEN LET r == processLayerTar(h.Name, currentLayer + 1, body.tar)
            IN  /\ currentLayer' = currentLayer + 1
                /\ UNCHANGED jsonFiles
                /\ IF r.err # NoErr
                   THEN /\ pc' = "failed"
                        /\ parseErr' = r.err
                        /\ UNCHANGED layerMap
                   ELSE /\ layerMap' = [layerMap EXCEPT ![h.Name] = r.tree]
                        /\ UNCHANGED <<pc, parseErr>>
       ELSE IF HasSuffix(h.Name, JsonExt)
       THEN /\ jsonFiles' = [jsonFiles EXCEPT ![h.Name] = body.bytes]
            /\ UNCHANGED <<pc, currentLayer, parseErr, layerMap>>
       ELSE UNCHANGED <<pc, currentLayer, parseErr, layerMap, jsonFiles>>

ParseEntryOf(tars) ==
    /\ currentLayer < MaxLayerEntries
    /\ \E h \in TopHeaders : \E body \in BodiesOf(h, tars) : ParseIteration(h, body)

ParseEntry == ParseEntryOf(SampleTars)

(* tarReader.Next() returns io.EOF: Parse returns nil *)
ParseEOF ==
    /\ pc = "parsing"
    /\ pc' = "parsed"
    /\ UNCHANGED <<header, layerTar, currentLayer, parseErr, layerMap, jsonFiles,
                   trees, layers, config, outcome, calls>>

(* Analyze, called after a Parse that returned nil *)
Analyze ==
    /\ pc \in {"parsed", "analyzed"}
    /\ calls < MaxCalls
    /\ calls' = calls + 1
    /\ LET r == AnalyzeRun(layerMap, jsonFiles, layers)
       IN  /\ trees' = r.trees
           /\ layers' = r.layers
           /\ config' = r.config
           /\ outcome' = r.outcome
    /\ pc' = "analyzed"
    /\ UNCHANGED <<header, layerTar, currentLayer, parseErr, layerMap, jsonFiles>>

Next == ParseEntry \/ ParseEOF \/ Analyze

Spec == Init /\ [][Next]_vars

(* Analyze over the states a finished Parse can leave *)
InitParsed ==
    /\ pc = "parsed"
    /\ header = NoHeader
    /\ layerTar = <<>>
    /\ currentLayer = 0
    /\ parseErr = NoErr
    /\ layerMap \in {m \in [LayerNames -> UNION {BuiltTrees(n) : n \in LayerNames} \cup {NoTree}] :
                        \A n \in LayerNames : m[n] = NoTree \/ m[n].Name = n}
    /\ jsonFiles \in {f \in [JsonNames -> Manifests \cup Configs \cup {NoBytes}] :
                        /\ f[ManifestName] \in Manifests \cup {NoBytes}
                        /\ f[ConfigName] \in Configs \cup {NoBytes}}
    /\ trees = <<>>
    /\ layers = <<>>
    /\ config = NoConfig
    /\ outcome = NoOutcome
    /\ calls = 0

NextAnalyze == Analyze

SpecAnalyze == InitParsed /\ [][NextAnalyze]_vars

(* One pass of Parse's loop over every layer sub-archive of up to MaxFiles  *)
(* records, from the head of the loop with what earlier passes stored       *)
InitLoopHead ==
    /\ pc = "parsing"
    /\ header = NoHeader
    /\ layerTar = <<>>
    /\ currentLayer \in {0, 1}
    /\ parseErr = NoErr
    /\ layerMap \in {m \in [LayerNames -> UNION {BuiltTrees(n) : n \in LayerNames} \cup {NoTree}] :
                        /\ \A n \in LayerNames : m[n] = NoTree \/ m[n].Name = n
                        /\ (currentLayer = 0) = (\A n \in LayerNames : m[n] = NoTree)
                        /\ \E n \in LayerNames : m[n] = NoTree}
    /\ jsonFiles = [n \in JsonNames |-> NoBytes]
    /\ trees = <<>>
    /\ layers = <<>>
    /\ config = NoConfig
    /\ outcome = NoOutcome
    /\ calls = 0

ParseOneEntry == header = NoHeader /\ ParseEntryOf(LayerTars)

NextLayer == ParseOneEntry \/ ParseEOF

SpecLayer == InitLoopHead /\ [][NextLayer]_vars

-----------------------------------------------------------------------------
(* Vocabulary of the properties *)

InputManifest == jsonFiles[ManifestName]
InputConfig == jsonFiles[ConfigName]
Readable == ~Unreadable(InputManifest) /\ ~Unreadable(InputConfig)

\* the history entries with content, in chronological order
WithContent(history) == SelectSeq(history, LAMBDA e : ~e.EmptyLayer)
\* how many entries before idx have content
ContentBefore(history, idx) == Cardinality({j \in 1..(idx - 1) : ~history[j].EmptyLayer})

LayerPaths == InputManifest.LayerTarPaths
ContentCount == Len(WithContent(InputConfig.History))
\* the config can be built: there is a diff-id for every entry with content
Buildable == Readable /\ ContentCount <= Len(InputConfig.DiffIds)
CountsMatch == ContentCount = Len(LayerPaths)
AllTreesBuilt == \A i \in 1..Len(LayerPaths) : layerMap[LayerPaths[i]] # NoTree

Called == pc = "analyzed"
Returned == Called /\ outcome.kind = "result"
\* the Layer of the i-th entry with content (0-based), at position (n-1)-i
LayerOf(i) == outcome.Layers[(Len(outcome.Layers) - 1 - i) + 1]

\* C1: in a result of Analyze (the entries with content being as many as the
\* manifest's layer paths), the Layer of the i-th entry with content holds as
\* its tree trees[i], the tree built from layerTarPaths[i].
C1_TreeIsChronological ==
    (Returned /\ CountsMatch) =>
        \A i \in 0..(Len(LayerPaths) - 1) :
            /\ LayerTree(LayerOf(i)) = outcome.RefTrees[i + 1]
            /\ LayerTree(LayerOf(i)) = layerMap[LayerPaths[i + 1]]

\* C2: for every Layer of a result, the total size of the tree its Tree()
\* returns equals its Size().
C2_TreeSizeIsLayerSize ==
    Returned =>
        \A k \in 1..Len(outcome.Layers) :
            LayerTree(outcome.Layers[k]).FileSize = LayerSize(outcome.Layers[k])

\* C3: when the entries with content are as many as the n layer paths (and the
\* config and every tree were built), Analyze returns exactly n Layers; the
\* i-th entry with content gives the Layer at position (n-1)-i, with that
\* index, tarPath layerTarPaths[i], the id and command of that entry and the
\* size of trees[i]; and Analyze returns a result in no other case.
C3_LayersFollowHistory ==
    /\ (Called /\ Buildable /\ CountsMatch /\ AllTreesBuilt) => Returned
    /\ Returned =>
        /\ Buildable /\ CountsMatch /\ AllTreesBuilt
        /\ Len(outcome.Layers) = Len(LayerPaths)
        /\ \A i \in 0..(Len(LayerPaths) - 1) :
            LET l == LayerOf(i)
                e == WithContent(InputConfig.History)[i + 1]
            IN  /\ l # NoLayer
                /\ LayerIndex(l) = (Len(LayerPaths) - 1) - i
                /\ l.tarPath = LayerPaths[i + 1]
                /\ LayerId(l) = InputConfig.DiffIds[i + 1]
                /\ l.history.CreatedBy = e.CreatedBy
                /\ LayerCommand(l) = SelectSeq(e.CreatedBy, LAMBDA w : w # ShPrefix)
                /\ LayerSize(l) = layerMap[LayerPaths[i + 1]].FileSize

\* a result over two layers of different sizes and paths, with an empty
\* history entry among those with content
C3_Witness ==
    /\ Returned
    /\ Len(outcome.Layers) = 2
    /\ LayerPaths[1] # LayerPaths[2]
    /\ LayerSize(outcome.Layers[1]) # LayerSize(outcome.Layers[2])
    /\ Len(InputConfig.History) = 3
    /\ InputConfig.History[2].EmptyLayer

\* C4: in a result over n >= 1 layers, userSizeBytes is sizeBytes less the size
\* of the base layer, the Layer of the first entry with content (index n-1).
C4_UserSizeExcludesBase ==
    (Returned /\ Len(outcome.Layers) >= 1) =>
        outcome.UserSizeByes = outcome.SizeBytes - LayerSize(LayerOf(0))

\* C5: when the manifest's layer paths and the history entries with content
\* differ in number, Analyze gives its caller an error and no result.
C5_MismatchIsAnError ==
    (Called /\ Buildable /\ ~CountsMatch) => outcome.kind = "error"

\* C9: when a layer path of the manifest has no built tree, Analyze gives its
\* caller an error and no result.
C9_MissingTreeIsAnError ==
    (Called /\ Buildable /\ ~AllTreesBuilt) => outcome.kind = "error"

\* the total of the sizes of the records of a sub-archive, of every kind
RECURSIVE TotalSize(_)
TotalSize(records) ==
    IF records = <<>> THEN 0 ELSE Head(records).Size + TotalSize(Tail(records))

\* the total of the sizes of the regular files a tree keeps
RECURSIVE RegularSizeOver(_, _)
RegularSizeOver(tree, paths) ==
    IF paths = {} THEN 0
    ELSE LET p == CHOOSE x \in paths : TRUE
         IN  (IF tree.files[p].TypeFlag = TypeReg THEN tree.files[p].Size ELSE 0)
             + RegularSizeOver(tree, paths \ {p})
KeptRegularSize(tree) == RegularSizeOver(tree, DOMAIN tree.files)

\* the last pass of Parse's loop read a layer sub-archive and stored its tree
StoredLayer ==
    /\ pc # "failed"
    /\ header.Typeflag \in {TypeReg, TypeSymlink}
    /\ HasSuffix(header.Name, LayerTarExt)

\* C6 as claimed: the Size() of every Layer of a result is the total of the
\* sizes of the regular files kept in the tree built from its own sub-archive.
C6_SizeIsKeptRegularSize ==
    Returned =>
        \A k \in 1..Len(outcome.Layers) :
            LayerSize(outcome.Layers[k]) = KeptRegularSize(layerMap[outcome.Layers[k].tarPath])

\* C6 as amended: the Size() of every Layer of a result is the FileSize of the
\* tree built from its own sub-archive, and that FileSize is the total of the
\* sizes of all the records of that sub-archive, whatever their kind and
\* whether or not a later record replaced them at the same path.
C6_SizeIsTotalOfRecords ==
    /\ StoredLayer => layerMap[header.Name].FileSize = TotalSize(layerTar)
    /\ Returned =>
        \A k \in 1..Len(outcome.Layers) :
            LayerSize(outcome.Layers[k]) = layerMap[outcome.Layers[k].tarPath].FileSize

\* a result over two layers of different sizes, the last one read holding a
\* directory record or a path written twice
C6_Witness ==
    /\ Returned
    /\ StoredLayer
    /\ Len(outcome.Layers) = 2
    /\ LayerSize(outcome.Layers[1]) # LayerSize(outcome.Layers[2])
    /\ \E k \in 1..2 :
        /\ outcome.Layers[k].tarPath = header.Name
        /\ LayerSize(outcome.Layers[k]) = TotalSize(layerTar)
        /\ LayerSize(outcome.Layers[k]) # KeptRegularSize(layerMap[header.Name])

\* the extended headers getFileList refuses
Invalid(hdr) == hdr.Typeflag \in {TypeXHeader, TypeXGlobalHeader}
HasInvalid(records) == \E i \in 1..Len(records) : Invalid(records[i])
FirstInvalid(records) ==
    records[CHOOSE i \in 1..Len(records) :
                /\ Invalid(records[i])
                /\ \A j \in 1..(i - 1) : ~Invalid(records[j])]
ClassOf(hdr) == IF hdr.Typeflag = TypeXHeader THEN "XHeader" ELSE "XGlobalHeader"

\* C7: a pass of Parse's loop over a layer sub-archive holding an extended or
\* global extended header ends Parse with an error that names the first such
\* record and its class, and leaves layerMap as it was.
C7_InvalidRecordFailsLayer ==
    [][(/\ pc = "parsing"
        /\ pc' # "parsed"
        /\ header'.Typeflag \in {TypeReg, TypeSymlink}
        /\ HasSuffix(header'.Name, LayerTarExt)
        /\ HasInvalid(layerTar'))
       => (/\ pc' = "failed"
           /\ parseErr'.name = FirstInvalid(layerTar').Name
           /\ parseErr'.typeflag = FirstInvalid(layerTar').Typeflag
           /\ parseErr'.class = ClassOf(FirstInvalid(layerTar'))
           /\ layerMap' = layerMap)]_vars

\* Parse failed on a sub-archive of two extended headers of different names
\* and classes, naming the first, and the tree an earlier pass stored under
\* that layer name is still there
C7_Witness ==
    /\ pc = "failed"
    /\ Len(layerTar) = 2
    /\ Invalid(layerTar[1]) /\ Invalid(layerTar[2])
    /\ layerTar[1].Name # layerTar[2].Name
    /\ layerTar[1].Typeflag # layerTar[2].Typeflag
    /\ parseErr.name = layerTar[1].Name
    /\ layerMap[header.Name] # NoTree

\* C8: a top-level record with an extended or global extended header ends
\* Parse with an error naming that record's path and header class.
C8_TopLevelInvalidFails ==
    Invalid(header) =>
        /\ pc = "failed"
        /\ parseErr # NoErr
        /\ parseErr.name = header.Name
        /\ parseErr.class = ClassOf(header)

\* C10: in the config newDockerImageConfig builds, the k-th history entry with
\* content has diffIds[k] as its id and every empty entry has "<missing>";
\* the config is built whenever there is a diff-id for every entry with content.
C10_DiffIdsInOrder ==
    /\ (Called /\ Buildable) => config # NoConfig
    /\ (Called /\ config # NoConfig) =>
        /\ Buildable
        /\ Len(config.History) = Len(InputConfig.History)
        /\ \A idx \in 1..Len(config.History) :
            /\ config.History[idx].EmptyLayer = InputConfig.History[idx].EmptyLayer
            /\ IF InputConfig.History[idx].EmptyLayer
               THEN config.History[idx].ID = MissingId
               ELSE config.History[idx].ID =
                        InputConfig.DiffIds[ContentBefore(InputConfig.History, idx) + 1]

\* a config built from a history that starts with an empty entry and has two
\* entries with content, and from more diff-ids than it needs
C10_Witness ==
    /\ Called
    /\ config # NoConfig
    /\ Len(config.History) = 3
    /\ config.History[1].ID = MissingId
    /\ config.History[2].ID = Digests[1]
    /\ config.History[3].ID = Digests[2]
    /\ Len(InputConfig.DiffIds) = 3

\* C11: a call of Analyze changes neither layerMap nor jsonFiles (nor, with
\* them, the FileSize of any built tree), and a call that follows a call which
\* returned a result returns the same result (Layers, trees, sizeBytes,
\* userSizeBytes) and leaves the same trees and layers in the analyzer.
C11_AnalyzeRepeatable ==
    [][(pc \in {"parsed", "analyzed"} /\ calls' = calls + 1)
       => (/\ layerMap' = layerMap
           /\ jsonFiles' = jsonFiles
           /\ Returned =>
                /\ outcome' = outcome
                /\ trees' = trees
                /\ layers' = layers)]_vars

\* Analyze was called twice and returned a result over two layers of
\* different sizes
C11_Witness ==
    /\ calls = 2
    /\ Returned
    /\ Len(outcome.Layers) = 2
    /\ LayerSize(outcome.Layers[1]) # LayerSize(outcome.Layers[2])
    /\ outcome.RefTrees[1] # outcome.RefTrees[2]

====
